---- MODULE Spec2Model ----
(***************************************************************************)
(* Model of src/src/select.rs: the CondSelectGadget multi-way selection    *)
(* (conditionally_select_power_of_two_vector, sum_of_conditions,           *)
(* repeated_selection, count_ones) and the two lookup-gadget contracts.    *)
(*                                                                         *)
(* Vectors keep the source's 0-based indices: At(s, k) is s[k] of the      *)
(* source.  A Boolean is an allocated variable with a witness value in     *)
(* {0, 1}; a LinearCombination is its coefficient vector over              *)
(* Variable::One (index 0) and the variables of position (index k + 1 for  *)
(* position[k]), with coefficients in the field.                           *)
(***************************************************************************)
EXTENDS Integers, Sequences, FiniteSets, TLC

\* Largest selector length n explored (tables of up to 2^MaxN candidates).
MaxN == 2

\* Modulus of the constraint field used to evaluate linear combinations.
FieldModulus == 5

\* Field elements the candidate tables and lookup constants are drawn from.
CandidateValues == {1, 2}

\* Failures a two-way select can report.
SynthesisErrors == {"AssignmentMissing", "Unsatisfiable"}

\* Lengths fixed by the lookup gadgets' contracts.
TwoBitLen == 2
ThreeBitLen == 3
LookupTableLen == 4

\* Width of usize in bits.
UsizeBits == 64

VARIABLES
    position,         \* witness values of the selector bits, position[0] first
    values,           \* the candidate table
    bits,             \* selector bits of a lookup call
    b0b1,             \* the b0b1 argument of three_bit_cond_neg_lookup
    constants,        \* the table of a lookup call
    entry,            \* the function the caller invoked
    pc,               \* where the call stands
    selectors,        \* sum_of_conditions: Vec<LinearCombination>
    selector_sums,    \* sum_of_conditions: Vec<LinearCombination>
    i,                \* the outer loop index of the running function
    j,                \* repeated_selection: the inner loop index
    cur_mux_values,   \* repeated_selection: the current layer
    next_mux_values,  \* repeated_selection: the layer being built
    trace,            \* the conditionally_select invocations made so far
    constraints,      \* number of constraints emitted so far
    outcome,          \* how the call ended
    overflow_checks   \* whether the build panics on arithmetic overflow

vars == <<position, values, bits, b0b1, constants, entry, pc, selectors,
          selector_sums, i, j, cur_mux_values, next_mux_values, trace,
          constraints, outcome, overflow_checks>>

----------------------------------------------------------------------------
\* Helpers: 0-based vectors, usize arithmetic, field arithmetic.

At(s, k) == s[k + 1]

Put(s, k, v) == [s EXCEPT ![k + 1] = v]

InRange(s, k) == k >= 0 /\ k < Len(s)

\* 1 << k on usize without overflow checks: the shift amount is taken
\* modulo the width.
shl1(k) == 2 ^ (k % UsizeBits)

\* 1 << k overflows (and panics under overflow checks) when k is not below
\* the width.
shl_overflows(k) == k >= UsizeBits

RECURSIVE BitOr(_, _)
BitOr(a, b) ==
    IF a = 0 THEN b
    ELSE IF b = 0 THEN a
    ELSE (IF a % 2 = 1 \/ b % 2 = 1 THEN 1 ELSE 0) + 2 * BitOr(a \div 2, b \div 2)

is_power_of_two(x) == \E k \in 0..x : 2 ^ k = x

RECURSIVE count_ones_loop(_, _)
count_ones_loop(count, y) ==
    IF y > 0 THEN count_ones_loop(count + (y % 2), y \div 2) ELSE count

count_ones(x) == count_ones_loop(0, x)

LinearCombination == [0..MaxN -> 0..(FieldModulus - 1)]

\* Boolean::constant(true).lc(): the constant one.
LcTrue == [k \in 0..MaxN |-> IF k = 0 THEN 1 ELSE 0]

\* position[k].lc(): the variable of position[k].
PositionLc(k) == [v \in 0..MaxN |-> IF v = k + 1 THEN 1 ELSE 0]

LcAdd(a, b) == [k \in 0..MaxN |-> (a[k] + b[k]) % FieldModulus]

LcSub(a, b) == [k \in 0..MaxN |-> (a[k] + FieldModulus - b[k]) % FieldModulus]

FieldNeg(x) == (FieldModulus - x) % FieldModulus

Pending == [kind |-> "pending", val |-> 0, why |-> ""]
Ok(v) == [kind |-> "ok", val |-> v, why |-> ""]
Err(e) == [kind |-> "err", val |-> 0, why |-> e]
Panic(msg) == [kind |-> "panic", val |-> 0, why |-> msg]

m == Len(values)
n == Len(position)

----------------------------------------------------------------------------
\* Inputs.

Tables(len) == [1..len -> CandidateValues]
BitVectors(len) == [1..len -> {0, 1}]

\* Selector sequences at and beyond the width of usize, all bits equal.
LongBitVectors ==
    {[k \in 1..len |-> b] : len \in UsizeBits..(UsizeBits + MaxN), b \in {0, 1}}

InitSelect ==
    /\ \/ \E nn \in 0..MaxN : position \in BitVectors(nn)
       \/ position \in LongBitVectors
    /\ \E len \in 0..(2 ^ MaxN + 1) : values \in Tables(len)
    /\ bits = <<>>
    /\ b0b1 = 0
    /\ constants = <<>>

InitLookup ==
    /\ position = <<>>
    /\ values = <<>>
    /\ \E len \in (TwoBitLen - 1)..(ThreeBitLen + 1) : bits \in BitVectors(len)
    /\ b0b1 \in {0, 1}
    /\ \E len \in (LookupTableLen - 1)..(LookupTableLen + 1) : constants \in Tables(len)

Init ==
    /\ (InitSelect \/ InitLookup)
    /\ entry = "none"
    /\ pc = "idle"
    /\ selectors = <<>>
    /\ selector_sums = <<>>
    /\ i = 0
    /\ j = 0
    /\ cur_mux_values = <<>>
    /\ next_mux_values = <<>>
    /\ trace = <<>>
    /\ constraints = 0
    /\ outcome = Pending
    /\ overflow_checks \in BOOLEAN

----------------------------------------------------------------------------
\* The two-way select every selectable type provides.

\* conditionally_select: true_value when cond is witnessed 1, else false_value.
conditionally_select(cond, true_value, false_value) ==
    IF cond = 1 THEN true_value ELSE false_value

\* Constraints one successful two-way select appends (one multiplication
\* constraint for a single-limb value).
SelectConstraints == 1

----------------------------------------------------------------------------
\* sum_of_conditions

\* assert!(m.is_power_of_two()); assert_eq!(1 << n, m);
\* The panic the two assertions end in, "" when both pass.
SocAssertions(mm, nn) ==
    IF ~is_power_of_two(mm) THEN "assertion failed"
    ELSE IF overflow_checks /\ shl_overflows(nn)
         THEN "attempt to shift left with overflow"
    ELSE IF shl1(nn) # mm THEN "assertion failed"
    ELSE ""

\* Entering sum_of_conditions: the assertions, then the selectors vector
\* filled with m constant-true linear combinations.
SocEnter(e) ==
    /\ pc = "idle"
    /\ entry' = e
    /\ IF SocAssertions(m, n) # ""
       THEN /\ pc' = "done"
            /\ outcome' = Panic(SocAssertions(m, n))
            /\ UNCHANGED selectors
       ELSE /\ pc' = "soc_selectors"
            /\ selectors' = [k \in 1..m |-> LcTrue]
            /\ UNCHANGED outcome
    /\ i' = 0
    /\ UNCHANGED <<position, values, bits, b0b1, constants, selector_sums, j,
                   cur_mux_values, next_mux_values, trace, constraints, overflow_checks>>

\* The public entry point: its first statement calls sum_of_conditions and
\* drops the Result; a panic inside is not a Result and ends the whole call.
conditionally_select_power_of_two_vector ==
    SocEnter("conditionally_select_power_of_two_vector")

sum_of_conditions == SocEnter("sum_of_conditions")

\* for j in (1 << i) + 1..(1 << (i + 1)) { selectors[j] = &selectors[1 << i] + &selectors[j - (1 << i)]; }
RECURSIVE soc_inner_loop(_, _, _)
soc_inner_loop(sel, ii, jj) ==
    IF jj >= shl1(ii + 1) THEN sel
    ELSE soc_inner_loop(
             Put(sel, jj, LcAdd(At(sel, shl1(ii)), At(sel, jj - shl1(ii)))),
             ii, jj + 1)

\* Largest index of selectors one pass of the outer loop touches.
soc_max_index(ii) ==
    IF shl1(ii + 1) - 1 > shl1(ii) THEN shl1(ii + 1) - 1 ELSE shl1(ii)

\* One pass of the outer loop `for i in 0..n` over the selectors table.
soc_selectors_loop ==
    /\ pc = "soc_selectors"
    /\ i < n
    /\ IF ~InRange(selectors, soc_max_index(i)) \/ ~InRange(position, i)
       THEN /\ pc' = "done"
            /\ outcome' = Panic("index out of bounds")
            /\ UNCHANGED <<selectors, i>>
       ELSE /\ selectors' = soc_inner_loop(Put(selectors, shl1(i), PositionLc(i)),
                                           i, shl1(i) + 1)
            /\ i' = i + 1
            /\ UNCHANGED <<pc, outcome>>
    /\ UNCHANGED <<position, values, bits, b0b1, constants, entry, selector_sums,
                   j, cur_mux_values, next_mux_values, trace, constraints, overflow_checks>>

\* The double loop over selector_sums, k = i * m + j in the source's order.
\* Indexing a vector at or beyond its length panics.
RECURSIVE soc_sums_loop(_, _, _, _)
soc_sums_loop(sums, sel, mm, k) ==
    IF k >= mm * mm THEN [panic |-> FALSE, sums |-> sums]
    ELSE LET ii == k \div mm
             jj == k % mm
         IN  IF BitOr(ii, jj) = jj
             THEN IF ~InRange(sums, ii) \/ ~InRange(sel, jj)
                  THEN [panic |-> TRUE, sums |-> sums]
                  ELSE soc_sums_loop(
                           Put(sums, ii,
                               IF count_ones(jj - ii) % 2 = 0
                               THEN LcAdd(At(sums, ii), At(sel, jj))
                               ELSE LcSub(At(sums, ii), At(sel, jj))),
                           sel, mm, k + 1)
             ELSE soc_sums_loop(sums, sel, mm, k + 1)

\* Vec::with_capacity(m): capacity m, length 0.
with_capacity(mm) == <<>>

\* The rest of sum_of_conditions once the selectors table is built: the
\* selector_sums loops, the root loop (which reads values[i] and
\* selector_sums[i] and whose sum is dropped) and unimplemented!().
soc_selector_sums ==
    /\ pc = "soc_selectors"
    /\ i >= n
    /\ LET r == soc_sums_loop(with_capacity(m), selectors, m, 0)
       IN  /\ selector_sums' = r.sums
           /\ outcome' = IF r.panic \/ (m > 0 /\ ~InRange(r.sums, m - 1))
                         THEN Panic("index out of bounds")
                         ELSE Panic("not implemented")
    /\ pc' = "done"
    /\ UNCHANGED <<position, values, bits, b0b1, constants, entry, selectors, i,
                   j, cur_mux_values, next_mux_values, trace, constraints, overflow_checks>>

----------------------------------------------------------------------------
\* repeated_selection

\* assert!(m.is_power_of_two()); assert_eq!(1 << n, m);
\* The panic the two assertions end in, "" when both pass.
RsAssertions(mm, nn) ==
    IF ~is_power_of_two(mm) THEN "assertion failed"
    ELSE IF overflow_checks /\ shl_overflows(nn)
         THEN "attempt to shift left with overflow"
    ELSE IF shl1(nn) # mm THEN "assertion failed"
    ELSE ""

\* Entering repeated_selection: the assertions, then cur_mux_values = values.to_vec().
repeated_selection ==
    /\ pc = "idle"
    /\ entry' = "repeated_selection"
    /\ IF RsAssertions(m, n) # ""
       THEN /\ pc' = "done"
            /\ outcome' = Panic(RsAssertions(m, n))
            /\ UNCHANGED cur_mux_values
       ELSE /\ pc' = "rs_level"
            /\ cur_mux_values' = values
            /\ UNCHANGED outcome
    /\ i' = 0
    /\ UNCHANGED <<position, values, bits, b0b1, constants, selectors,
                   selector_sums, j, next_mux_values, trace, constraints, overflow_checks>>

cur_size_halved(nn, ii) == shl1(nn - ii - 1)

\* let cur_size = 1 << (n - i);
cur_size(nn, ii) == shl1(nn - ii)

\* The start of one pass of `for i in 0..n`: the size assertion and a fresh
\* next_mux_values.
rs_level ==
    /\ pc = "rs_level"
    /\ i < n
    /\ IF Len(cur_mux_values) # cur_size(n, i)
       THEN /\ pc' = "done"
            /\ outcome' = Panic("assertion failed")
            /\ UNCHANGED <<next_mux_values, j>>
       ELSE /\ pc' = "rs_select"
            /\ next_mux_values' = <<>>
            /\ j' = 0
            /\ UNCHANGED outcome
    /\ UNCHANGED <<position, values, bits, b0b1, constants, entry, selectors,
                   selector_sums, i, cur_mux_values, trace, constraints, overflow_checks>>

rs_bit_index_same_order(nn, ii) == ii

\* The selector bit of level i: &position[n - 1 - i].
rs_bit_index(nn, ii) == nn - 1 - ii

rs_select_value_swapped(cond, cur, jj) ==
    conditionally_select(cond, At(cur, jj), At(cur, jj + 1))

\* CondG::conditionally_select(&position[n - 1 - i], &cur_mux_values[j + 1], &cur_mux_values[j])
rs_select_value(cond, cur, jj) ==
    conditionally_select(cond, At(cur, jj + 1), At(cur, jj))

\* The value repeated_selection returns when no select fails: the outer loop
\* from level ii on, each level mapping adjacent pairs of cur through the select.
RECURSIVE rs_layers(_, _, _)
rs_layers(pos, cur, ii) ==
    IF ii >= Len(pos) THEN At(cur, 0)
    ELSE rs_layers(pos,
                   [q \in 1..(Len(cur) \div 2) |->
                       rs_select_value(At(pos, rs_bit_index(Len(pos), ii)), cur,
                                       2 * (q - 1))],
                   ii + 1)

\* What one invocation of conditionally_select is recorded as.
SelectRecord(ok, why, out) ==
    [level |-> i, bit |-> rs_bit_index(n, i), t |-> j + 1, f |-> j,
     tv |-> At(cur_mux_values, j + 1), fv |-> At(cur_mux_values, j),
     ok |-> ok, why |-> why, out |-> out]

\* One pass of `for j in (0..cur_size).step_by(2)` whose select succeeds.
rs_select_ok ==
    /\ pc = "rs_select"
    /\ j < cur_size(n, i)
    /\ InRange(cur_mux_values, j + 1)
    /\ LET cur == rs_select_value(At(position, rs_bit_index(n, i)), cur_mux_values, j)
       IN  /\ next_mux_values' = Append(next_mux_values, cur)
           /\ trace' = Append(trace, SelectRecord(TRUE, "", cur))
    /\ constraints' = constraints + SelectConstraints
    /\ j' = j + 2
    /\ UNCHANGED <<position, values, bits, b0b1, constants, entry, pc, selectors,
                   selector_sums, i, cur_mux_values, outcome, overflow_checks>>

rs_select_err_swallowed ==
    /\ pc = "rs_select"
    /\ j < cur_size(n, i)
    /\ InRange(cur_mux_values, j + 1)
    /\ \E e \in SynthesisErrors :
           trace' = Append(trace, SelectRecord(FALSE, e, 0))
    /\ next_mux_values' = Append(next_mux_values, At(cur_mux_values, j))
    /\ j' = j + 2
    /\ UNCHANGED <<position, values, bits, b0b1, constants, entry, pc, selectors,
                   selector_sums, i, cur_mux_values, constraints, outcome, overflow_checks>>

rs_select_err_rolled_back ==
    /\ pc = "rs_select"
    /\ j < cur_size(n, i)
    /\ InRange(cur_mux_values, j + 1)
    /\ \E e \in SynthesisErrors :
           /\ trace' = Append(trace, SelectRecord(FALSE, e, 0))
           /\ outcome' = Err(e)
    /\ constraints' = 0
    /\ pc' = "done"
    /\ UNCHANGED <<position, values, bits, b0b1, constants, entry, selectors,
                   selector_sums, i, j, cur_mux_values, next_mux_values, overflow_checks>>

\* One pass of the inner loop whose select reports a failure: the `?`
\* returns it from repeated_selection at once.
rs_select_err ==
    /\ pc = "rs_select"
    /\ j < cur_size(n, i)
    /\ InRange(cur_mux_values, j + 1)
    /\ \E e \in SynthesisErrors :
           /\ trace' = Append(trace, SelectRecord(FALSE, e, 0))
           /\ outcome' = Err(e)
    /\ pc' = "done"
    /\ UNCHANGED <<position, values, bits, b0b1, constants, entry, selectors,
                   selector_sums, i, j, cur_mux_values, next_mux_values,
                   constraints, overflow_checks>>

\* One pass of the inner loop in which &cur_mux_values[j + 1] is out of
\* bounds: the panic comes while the arguments are built, before the select.
rs_select_index_panic ==
    /\ pc = "rs_select"
    /\ j < cur_size(n, i)
    /\ ~InRange(cur_mux_values, j + 1)
    /\ outcome' = Panic("index out of bounds")
    /\ pc' = "done"
    /\ UNCHANGED <<position, values, bits, b0b1, constants, entry, selectors,
                   selector_sums, i, j, cur_mux_values, next_mux_values, trace,
                   constraints, overflow_checks>>

\* The end of one pass of the outer loop: cur_mux_values = next_mux_values.
rs_level_end ==
    /\ pc = "rs_select"
    /\ j >= cur_size(n, i)
    /\ cur_mux_values' = next_mux_values
    /\ i' = i + 1
    /\ pc' = "rs_level"
    /\ UNCHANGED <<position, values, bits, b0b1, constants, entry, selectors,
                   selector_sums, j, next_mux_values, trace, constraints, outcome, overflow_checks>>

\* Ok(cur_mux_values[0].clone())
rs_return ==
    /\ pc = "rs_level"
    /\ i >= n
    /\ outcome' = IF InRange(cur_mux_values, 0)
                  THEN Ok(At(cur_mux_values, 0))
                  ELSE Panic("index out of bounds")
    /\ pc' = "done"
    /\ UNCHANGED <<position, values, bits, b0b1, constants, entry, selectors,
                   selector_sums, i, j, cur_mux_values, next_mux_values, trace,
                   constraints, overflow_checks>>

----------------------------------------------------------------------------
\* The lookup gadgets.

two_bit_index_msb_first(bs) == At(bs, 1) + 2 * At(bs, 0)

\* b = bits[0] + (bits[1] << 1)
two_bit_index(bs) == At(bs, 0) + 2 * At(bs, 1)

two_bit_lookup ==
    /\ pc = "idle"
    /\ entry' = "two_bit_lookup"
    /\ outcome' = IF Len(bits) # TwoBitLen \/ Len(constants) # LookupTableLen
                  THEN Panic("assertion failed")
                  ELSE Ok(At(constants, two_bit_index(bits)))
    /\ pc' = "done"
    /\ UNCHANGED <<position, values, bits, b0b1, constants, selectors,
                   selector_sums, i, j, cur_mux_values, next_mux_values, trace,
                   constraints, overflow_checks>>

\* constants[b] * c, where c = if bits[2] { -1 } else { 1 }
cond_neg(bs, v) == IF At(bs, 2) = 1 THEN FieldNeg(v) ELSE v

three_bit_cond_neg_lookup ==
    /\ pc = "idle"
    /\ entry' = "three_bit_cond_neg_lookup"
    /\ outcome' = IF Len(bits) # ThreeBitLen \/ Len(constants) # LookupTableLen
                  THEN Panic("assertion failed")
                  ELSE Ok(cond_neg(bits, At(constants, two_bit_index(bits))))
    /\ pc' = "done"
    /\ UNCHANGED <<position, values, bits, b0b1, constants, selectors,
                   selector_sums, i, j, cur_mux_values, next_mux_values, trace,
                   constraints, overflow_checks>>

----------------------------------------------------------------------------

Next ==
    \/ conditionally_select_power_of_two_vector
    \/ sum_of_conditions
    \/ soc_selectors_loop
    \/ soc_selector_sums
    \/ repeated_selection
    \/ rs_level
    \/ rs_select_ok
    \/ rs_select_err
    \/ rs_select_index_panic
    \/ rs_level_end
    \/ rs_return
    \/ two_bit_lookup
    \/ three_bit_cond_neg_lookup

Spec == Init /\ [][Next]_vars

TypeOK ==
    /\ pc \in {"idle", "soc_selectors", "rs_level", "rs_select", "done"}
    /\ outcome.kind \in {"pending", "ok", "err", "panic"}
    /\ \A k \in 1..Len(selectors) : selectors[k] \in LinearCombination
    /\ constraints \in Nat

----------------------------------------------------------------------------
\* Vocabulary of the properties.

\* The unsigned integer pos encodes with pos[0] as the top bit.
RECURSIVE MsbFirstIndex(_)
MsbFirstIndex(pos) ==
    IF Len(pos) = 0 THEN 0
    ELSE 2 * MsbFirstIndex(SubSeq(pos, 1, Len(pos) - 1)) + pos[Len(pos)]

Pow2(k) == 2 ^ k

\* values.len() = 2^(position.len())
ValidInput == n < UsizeBits /\ m = Pow2(n)

InRepeatedSelection == entry = "repeated_selection"
InSumOfConditions == entry = "sum_of_conditions"
InPublicSelect == entry = "conditionally_select_power_of_two_vector"

NoSelectFailed == \A k \in 1..Len(trace) : trace[k].ok

\* Number of selects made before level lv of a run without failure.
LevelOffset(lv) == Pow2(n) - Pow2(n - lv)

RECURSIVE LcEvalFrom(_, _, _)
LcEvalFrom(lc, pos, k) ==
    IF k > Len(pos) THEN 0
    ELSE (lc[k] * pos[k] + LcEvalFrom(lc, pos, k + 1)) % FieldModulus

\* The value of a linear combination under the witness assignment pos.
LcEval(lc, pos) == (lc[0] + LcEvalFrom(lc, pos, 1)) % FieldModulus

\* Product of the selector bits at the set-bit positions of idx.
RECURSIVE BitProduct(_, _, _)
BitProduct(pos, idx, k) ==
    IF k >= Len(pos) THEN 1
    ELSE (IF (idx \div Pow2(k)) % 2 = 1 THEN At(pos, k) ELSE 1)
         * BitProduct(pos, idx, k + 1)

----------------------------------------------------------------------------
\* C1: on every valid input with n >= 1 the public entry point
\* conditionally_select_power_of_two_vector returns normally, and what it
\* returns is values[b], b the integer position encodes most-significant-bit
\* first.
C1_PublicSelectReturnsIndexed ==
    (InPublicSelect /\ pc = "done" /\ n >= 1 /\ ValidInput)
        => outcome = Ok(At(values, MsbFirstIndex(position)))

\* C2: repeated_selection called standalone on a valid input holds exactly
\* 2^(n-i) candidates at level i, uses position[n-1-i] at level i, and, when
\* no select fails, returns values[b] with position[0] the top bit of b
\* (values[0] when n = 0).
C2_RepeatedSelectionIndexes ==
    (InRepeatedSelection /\ ValidInput) =>
        /\ pc \in {"rs_level", "rs_select"} => Len(cur_mux_values) = Pow2(n - i)
        /\ \A k \in 1..Len(trace) : trace[k].bit = n - 1 - trace[k].level
        /\ (pc = "done" /\ NoSelectFailed) =>
               /\ outcome = Ok(At(values, MsbFirstIndex(position)))
               /\ rs_layers(position, values, 0) = outcome.val

C2_Witness ==
    /\ InRepeatedSelection
    /\ pc = "done"
    /\ position = <<0, 1>>
    /\ values = <<1, 2, 1, 1>>
    /\ outcome = Ok(2)

\* C3: when values.len() # 2^(position.len()) a call of the public entry
\* point ends in the precondition failure (a failed assertion, or the
\* overflow panic of the shift inside it), with no two-way select invoked
\* and no constraint emitted.
C3_LengthMismatchFailsFirst ==
    (InPublicSelect /\ ~ValidInput) =>
        /\ pc = "done"
        /\ outcome.kind = "panic"
        /\ outcome.why \in {"assertion failed", "attempt to shift left with overflow"}
        /\ trace = <<>>
        /\ constraints = 0

\* C4 as stated: a finished call of repeated_selection on a valid input has
\* either made all its selects, emitted all their constraints and returned
\* a value, or reports failure with zero constraints emitted.
C4_NoPartialSuccess ==
    (InRepeatedSelection /\ ValidInput /\ pc = "done") =>
        \/ /\ outcome.kind = "ok"
           /\ Len(trace) = m - 1
           /\ constraints = (m - 1) * SelectConstraints
        \/ /\ outcome.kind = "err"
           /\ constraints = 0

\* C4 amended: a finished call of repeated_selection on a valid input has
\* either made all m-1 selects, emitted all their constraints and returned
\* a value, or reports the failure of the select it made last, with the
\* constraints of the selects that succeeded before it still emitted.
C4_FailureKeepsEarlierConstraints ==
    (InRepeatedSelection /\ ValidInput /\ pc = "done") =>
        \/ /\ outcome.kind = "ok"
           /\ Len(trace) = m - 1
           /\ constraints = (m - 1) * SelectConstraints
        \/ /\ outcome.kind = "err"
           /\ Len(trace) \in 1..(m - 1)
           /\ ~trace[Len(trace)].ok
           /\ constraints = (Len(trace) - 1) * SelectConstraints

C4_Witness ==
    /\ InRepeatedSelection
    /\ pc = "done"
    /\ outcome.kind = "err"
    /\ Len(trace) = 3
    /\ constraints = 2 * SelectConstraints

\* C5: a call of repeated_selection on a valid input in which no select
\* fails returns after exactly m-1 selects, 2^(n-1-l) of them at level l, in
\* level order; each select of level l uses position[n-1-l] and takes the
\* adjacent pair (2q, 2q+1) of the outputs of level l-1 (of the input table
\* at level 0), so the last level is n-1.
C5_SelectCountAndDepth ==
    (InRepeatedSelection /\ ValidInput /\ pc = "done" /\ NoSelectFailed) =>
        /\ outcome.kind = "ok"
        /\ Len(trace) = m - 1
        /\ \A lv \in 0..(n - 1) :
               Cardinality({k \in 1..Len(trace) : trace[k].level = lv})
                   = Pow2(n - 1 - lv)
        /\ \A k \in 1..Len(trace) :
               LET lv == trace[k].level
                   q == (k - 1) - LevelOffset(lv)
               IN  /\ lv \in 0..(n - 1)
                   /\ q \in 0..(Pow2(n - 1 - lv) - 1)
                   /\ trace[k].bit = n - 1 - lv
                   /\ trace[k].f = 2 * q
                   /\ trace[k].t = 2 * q + 1
                   /\ IF lv = 0
                      THEN /\ trace[k].fv = At(values, 2 * q)
                           /\ trace[k].tv = At(values, 2 * q + 1)
                      ELSE /\ trace[k].fv = trace[LevelOffset(lv - 1) + 2 * q + 1].out
                           /\ trace[k].tv = trace[LevelOffset(lv - 1) + 2 * q + 2].out

C5_Witness ==
    /\ InRepeatedSelection
    /\ pc = "done"
    /\ outcome.kind = "ok"
    /\ n = 2
    /\ Len(trace) = 3
    /\ trace[3].level = 1

\* C6: once a two-way select of repeated_selection has reported a failure,
\* that select is the last one invoked, the call has ended, and what it
\* returned is exactly that failure.
C6_FailurePropagates ==
    InRepeatedSelection =>
        \A k \in 1..Len(trace) :
            ~trace[k].ok =>
                /\ k = Len(trace)
                /\ pc = "done"
                /\ outcome = Err(trace[k].why)

C6_Witness ==
    /\ InRepeatedSelection
    /\ pc = "done"
    /\ Len(trace) = 2
    /\ trace[1].ok
    /\ ~trace[2].ok
    /\ outcome = Err("Unsatisfiable")

\* C7: two_bit_lookup returns constants[bits[0] + 2*bits[1]] for 2 bits and
\* 4 constants; three_bit_cond_neg_lookup returns that entry for 3 bits and
\* 4 constants, negated exactly when bits[2] = 1; whatever b0b1 is; any
\* other length is a precondition failure.
C7_LookupIndexing ==
    /\ entry = "two_bit_lookup" =>
           IF Len(bits) = 2 /\ Len(constants) = 4
           THEN outcome = Ok(constants[1 + bits[1] + 2 * bits[2]])
           ELSE outcome = Panic("assertion failed")
    /\ entry = "three_bit_cond_neg_lookup" =>
           IF Len(bits) = 3 /\ Len(constants) = 4
           THEN outcome = Ok(IF bits[3] = 1
                             THEN (FieldModulus - constants[1 + bits[1] + 2 * bits[2]])
                                      % FieldModulus
                             ELSE constants[1 + bits[1] + 2 * bits[2]])
           ELSE outcome = Panic("assertion failed")

C7_Witness ==
    /\ entry = "three_bit_cond_neg_lookup"
    /\ bits = <<1, 0, 1>>
    /\ constants = <<1, 2, 1, 1>>
    /\ outcome = Ok(FieldModulus - 2)

\* C8: on every valid input sum_of_conditions yields the weighted sum, and
\* it equals what repeated_selection returns on the same position and table.
C8_CrossCheck ==
    (InSumOfConditions /\ ValidInput /\ pc = "done")
        => outcome = Ok(rs_layers(position, values, 0))

\* C9: on every valid input sum_of_conditions builds all m entries of
\* selectors and of selector_sums and then ends in its final
\* "not implemented" failure, and in no other.
C9_BuildsTablesThenUnimplemented ==
    (InSumOfConditions /\ ValidInput /\ pc = "done") =>
        /\ Len(selectors) = m
        /\ Len(selector_sums) = m
        /\ outcome = Panic("not implemented")

\* C10: after the selector-table loop of sum_of_conditions, selectors[idx]
\* evaluates to the product of the selector bits at the set-bit positions
\* of idx, for every idx in [0, 2^n).
C10_SelectorsAreBitProducts ==
    (InSumOfConditions /\ pc = "soc_selectors" /\ i >= n) =>
        \A idx \in 0..(m - 1) :
            LcEval(At(selectors, idx), position) = BitProduct(position, idx, 0)

====
